---- MODULE Spec2Model ----
(***************************************************************************)
(* Dictionary-encoded, run-length-encoded string column                    *)
(* (segment_store/src/column/dictionary.rs).                               *)
(*                                                                         *)
(* The Encoding wrapper dispatches every call to the RLE engine.  The RLE  *)
(* engine (dictionary/rle.rs) is modelled from the specification: a sorted *)
(* dictionary, a run stream of (id, length) pairs and one bitmap of row    *)
(* ids per id.  Strings are sequences of small naturals compared           *)
(* lexicographically, as Rust compares String byte-wise.                   *)
(***************************************************************************)
EXTENDS Integers, Sequences, FiniteSets

\* ------------------------------------------------------------------ bounds
\* Largest number of rows a column may hold in the model.
MaxRows == 3
\* Largest `additional` argument of push_additional (0 is included).
MaxAdditional == 2
\* Largest number of runs in the run stream.
MaxRuns == 3

\* ------------------------------------------------------------- constants
\* The encoded id for a NULL value.
NULL_ID == 0

\* ---------------------------------------------------------------- strings
\* Strings that are appended: "a", "ab", "b".
PushValues == { <<1>>, <<1, 2>>, <<2>> }
\* Strings used as query arguments: "", "a", "aa", "ab", "aba", "b", "bb".
QueryValues == { <<>>, <<1>>, <<1, 1>>, <<1, 2>>, <<1, 2, 1>>, <<2>>, <<2, 2>> }

\* Option<String>
None == [some |-> FALSE]
Some(v) == [some |-> TRUE, v |-> v]

\* Lexicographic order of strings: a < b.
RECURSIVE StrLess(_, _)
StrLess(a, b) ==
    IF a = <<>> THEN b # <<>>
    ELSE IF b = <<>> THEN FALSE
    ELSE IF Head(a) < Head(b) THEN TRUE
    ELSE IF Head(b) < Head(a) THEN FALSE
    ELSE StrLess(Tail(a), Tail(b))

StrLessEq(a, b) == a = b \/ StrLess(a, b)

\* cmp::Operator
Operators == { "Equal", "NotEqual", "LT", "LTE", "GT", "GTE" }

\* The elements of a set of strings in ascending order (BTreeSet iteration).
RECURSIVE SortedSeq(_)
SortedSeq(S) ==
    IF S = {} THEN <<>>
    ELSE LET m == CHOOSE x \in S : \A y \in S : StrLessEq(x, y)
         IN  <<m>> \o SortedSeq(S \ {m})

\* The elements of a set of row ids in ascending order (RowIDs::Vector).
RECURSIVE AscendingSeq(_)
AscendingSeq(S) ==
    IF S = {} THEN <<>>
    ELSE LET m == CHOOSE x \in S : \A y \in S : x <= y
         IN  <<m>> \o AscendingSeq(S \ {m})

SeqToSet(s) == { s[i] : i \in 1..Len(s) }

\* ------------------------------------------------------------- dictionary
\* lookup(value) -> Option<id>; NULL_ID stands for "not present".
lookup(dict, v) ==
    IF \E i \in 1..Len(dict) : dict[i] = v
    THEN CHOOSE i \in 1..Len(dict) : dict[i] = v
    ELSE NULL_ID

\* First position whose entry is >= v (Len + 1 when there is none).
lower_bound(dict, v) ==
    LET ge == { i \in 1..Len(dict) : ~StrLess(dict[i], v) }
    IN  IF ge = {} THEN Len(dict) + 1
        ELSE CHOOSE i \in ge : \A j \in ge : i <= j

\* First position whose entry is > v (Len + 1 when there is none).
upper_bound(dict, v) ==
    LET gt == { i \in 1..Len(dict) : StrLess(v, dict[i]) }
    IN  IF gt = {} THEN Len(dict) + 1
        ELSE CHOOSE i \in gt : \A j \in gt : i <= j

\* value_of(id), id >= 1.
value_of(dict, id) == dict[id]

\* Re-index that leaves the id at position p where it was.
shift_id_above(id, p) == IF id > p THEN id + 1 ELSE id

\* Re-index: every id >= p moves up by one.
shift_id(id, p) == IF id >= p THEN id + 1 ELSE id

\* intern(value) -> (id, inserted): the column after interning v and v's id.
intern(col, v) ==
    LET found == lookup(col.dictionary, v)
        p     == lower_bound(col.dictionary, v)
        n     == Len(col.dictionary)
    IN  IF found # NULL_ID
        THEN [col |-> col, id |-> found, inserted |-> FALSE]
        ELSE [col |->
                [col EXCEPT
                   !.dictionary =
                       SubSeq(col.dictionary, 1, p - 1) \o <<v>>
                           \o SubSeq(col.dictionary, p, n),
                   !.run_lengths =
                       [i \in 1..Len(col.run_lengths) |->
                           [id     |-> shift_id(col.run_lengths[i].id, p),
                            length |-> col.run_lengths[i].length]],
                   !.index_row_ids =
                       [k \in 0..(n + 1) |->
                           IF k < p THEN col.index_row_ids[k]
                           ELSE IF k = p THEN {}
                           ELSE col.index_row_ids[k - 1]]],
              id |-> p, inserted |-> TRUE]

\* -------------------------------------------------------------- creation
\* RLE::default()
RLE_default ==
    [dictionary    |-> <<>>,
     run_lengths   |-> <<>>,
     index_row_ids |-> [k \in {NULL_ID} |-> {}],
     contains_null |-> FALSE,
     num_rows      |-> 0]

\* RLE::with_dictionary(set): the dictionary pre-seeded, no rows.
RLE_with_dictionary(S) ==
    [RLE_default EXCEPT
       !.dictionary    = SortedSeq(S),
       !.index_row_ids = [k \in 0..Cardinality(S) |-> {}]]

\* ---------------------------------------------------------------- appends
\* append_run with the new row ids taken as an inclusive range.
append_run_inclusive(col, id, additional) ==
    LET runs == col.run_lengths
        last == Len(runs)
    IN  [col EXCEPT
           !.run_lengths =
               IF last > 0 /\ runs[last].id = id
               THEN [runs EXCEPT ![last].length = @ + additional]
               ELSE Append(runs, [id |-> id, length |-> additional]),
           !.index_row_ids =
               [col.index_row_ids EXCEPT
                  ![id] = @ \cup { r \in 0..(col.num_rows + additional) :
                                     /\ r >= col.num_rows
                                     /\ r <= col.num_rows + additional }],
           !.num_rows = @ + additional]

\* Append `additional` rows of encoded id `id`.
append_run(col, id, additional) ==
    LET runs == col.run_lengths
        last == Len(runs)
    IN  [col EXCEPT
           !.run_lengths =
               IF last > 0 /\ runs[last].id = id
               THEN [runs EXCEPT ![last].length = @ + additional]
               ELSE Append(runs, [id |-> id, length |-> additional]),
           !.index_row_ids =
               [col.index_row_ids EXCEPT
                  ![id] = @ \cup { r \in 0..(col.num_rows + additional) :
                                     /\ r >= col.num_rows
                                     /\ r < col.num_rows + additional }],
           !.num_rows = @ + additional]

\* RLE::push_additional(v, additional)
RLE_push_additional(col, v, additional) ==
    IF v.some
    THEN LET i == intern(col, v.v)
         IN  append_run(i.col, i.id, additional)
    ELSE append_run([col EXCEPT !.contains_null = TRUE], NULL_ID, additional)

\* RLE::push_none()
RLE_push_none(col) == RLE_push_additional(col, None, 1)

\* The value of the most recent non-null run of the run stream.
last_non_null(col) ==
    LET nn == { i \in 1..Len(col.run_lengths) :
                  col.run_lengths[i].id # NULL_ID }
    IN  IF nn = {} THEN None
        ELSE LET i == CHOOSE x \in nn : \A y \in nn : y <= x
             IN  Some(value_of(col.dictionary, col.run_lengths[i].id))

\* RLE::push that interns v before it compares v with the last value.
RLE_push_intern_first(col, v) ==
    LET l == last_non_null(col)
    IN  IF l.some /\ StrLess(v, l.v)
        THEN [enc |-> intern(col, v).col, err |-> "OrderViolation"]
        ELSE [enc |-> RLE_push_additional(col, Some(v), 1), err |-> "none"]

\* RLE::push(v): OrderViolation when v is below the last non-null value,
\* and then the column is left as it was.
RLE_push(col, v) ==
    LET l == last_non_null(col)
    IN  IF l.some /\ StrLess(v, l.v)
        THEN [enc |-> col, err |-> "OrderViolation"]
        ELSE [enc |-> RLE_push_additional(col, Some(v), 1), err |-> "none"]

\* RLE::from(vec): a column made of the rows of vec, pushed in order.
RECURSIVE RLE_from(_)
RLE_from(vec) ==
    IF vec = <<>> THEN RLE_default
    ELSE RLE_push(RLE_from(SubSeq(vec, 1, Len(vec) - 1)), vec[Len(vec)]).enc

\* ---------------------------------------------------------------- queries
\* Union of the bitmaps of the ids lo..hi.
union_ids(col, lo, hi) ==
    UNION { col.index_row_ids[k] : k \in { j \in DOMAIN col.index_row_ids :
                                              j >= lo /\ j <= hi } }

\* The set of row ids satisfying `column[row] op value`.
filter_set(col, value, op) ==
    LET dict == col.dictionary
        n    == Len(dict)
        id   == lookup(dict, value)
    IN  CASE op = "Equal"    -> IF id # NULL_ID THEN col.index_row_ids[id] ELSE {}
          [] op = "NotEqual" -> UNION { col.index_row_ids[k] :
                                         k \in { j \in 1..n : j # id } }
          [] op = "LT"       -> union_ids(col, 1, lower_bound(dict, value) - 1)
          [] op = "LTE"      -> union_ids(col, 1, upper_bound(dict, value) - 1)
          [] op = "GT"       -> union_ids(col, upper_bound(dict, value), n)
          [] op = "GTE"      -> union_ids(col, lower_bound(dict, value), n)

\* RLE::row_ids_filter(value, op, dst): dst is cleared, then filled ascending.
RLE_row_ids_filter(col, value, op, dst) == AscendingSeq(filter_set(col, value, op))

\* RLE::row_ids_null(dst)
RLE_row_ids_null(col, dst) == AscendingSeq(col.index_row_ids[NULL_ID])

\* RLE::row_ids_not_null(dst): the complement within [0, num_rows).
RLE_row_ids_not_null(col, dst) ==
    AscendingSeq({ r \in 0..col.num_rows : r < col.num_rows }
                    \ col.index_row_ids[NULL_ID])

\* RLE::group_row_ids()
RLE_group_row_ids(col) == col.index_row_ids

\* RLE::dictionary()
RLE_dictionary(col) == col.dictionary

\* RLE::contains_null()
RLE_contains_null(col) == col.contains_null

\* Number of rows covered by the first i runs.
RECURSIVE rows_upto(_, _)
rows_upto(runs, i) ==
    IF i = 0 THEN 0 ELSE rows_upto(runs, i - 1) + runs[i].length

\* The encoded id at row_id found by walking the runs; -1 is not used, an
\* out-of-range row id gives NULL_ID.
encoded_id_at(col, row_id) ==
    LET runs  == col.run_lengths
        cover == { i \in 1..Len(runs) : row_id < rows_upto(runs, i) }
    IN  IF cover = {} THEN NULL_ID
        ELSE runs[CHOOSE i \in cover : \A j \in cover : i <= j].id

\* RLE::value(row_id)
RLE_value(col, row_id) ==
    LET id == encoded_id_at(col, row_id)
    IN  IF id = NULL_ID THEN None ELSE Some(value_of(col.dictionary, id))

\* RLE::all_encoded_values(dst): every run expanded.
RECURSIVE expand_runs(_)
expand_runs(runs) ==
    IF runs = <<>> THEN <<>>
    ELSE LET n == Len(runs)
         IN  expand_runs(SubSeq(runs, 1, n - 1))
                \o [i \in 1..runs[n].length |-> runs[n].id]

RLE_all_encoded_values(col, dst) == expand_runs(col.run_lengths)

\* RLE::count(row_ids): |row_ids| - |row_ids /\ bitmap[NULL_ID]|.
RLE_count(col, row_ids) ==
    Len(row_ids)
       - Cardinality(SeqToSet(row_ids) \cap col.index_row_ids[NULL_ID])

\* The non-null ids whose bitmap meets row_ids.
ids_in_selection(col, row_ids) ==
    { k \in 1..Len(col.dictionary) :
         col.index_row_ids[k] \cap SeqToSet(row_ids) # {} }

\* RLE::min(row_ids): the first non-null id, in ascending order, whose bitmap
\* meets row_ids.
RLE_min(col, row_ids) ==
    LET hit == ids_in_selection(col, row_ids)
    IN  IF hit = {} THEN None
        ELSE Some(value_of(col.dictionary,
                           CHOOSE k \in hit : \A j \in hit : k <= j))

\* RLE::max(row_ids): the same scan over the ids in descending order.
RLE_max(col, row_ids) ==
    LET hit == ids_in_selection(col, row_ids)
    IN  IF hit = {} THEN None
        ELSE Some(value_of(col.dictionary,
                           CHOOSE k \in hit : \A j \in hit : j <= k))

\* RLE::contains_other_values(values): some non-null value that has rows in
\* the column is not in `values`.
RLE_contains_other_values(col, values) ==
    \E k \in 1..Len(col.dictionary) :
       /\ col.index_row_ids[k] # {}
       /\ Some(value_of(col.dictionary, k)) \notin values

\* Gather of the encoded ids at the monotonically increasing row_ids: one walk
\* over the runs, from row_ids[i] and run j, `start` rows lying before run j.
\* Row ids beyond the last run are dropped.
RECURSIVE gather_ids(_, _, _, _, _)
gather_ids(runs, row_ids, i, j, start) ==
    IF i > Len(row_ids) \/ j > Len(runs) THEN <<>>
    ELSE IF row_ids[i] < start + runs[j].length
         THEN <<runs[j].id>> \o gather_ids(runs, row_ids, i + 1, j, start)
         ELSE gather_ids(runs, row_ids, i, j + 1, start + runs[j].length)

\* RLE::encoded_values(row_ids, dst): NULL rows are included as NULL_ID.
RLE_encoded_values(col, row_ids, dst) ==
    gather_ids(col.run_lengths, row_ids, 1, 1, 0)

\* The decoded value of an encoded id: None for NULL_ID.
decode_id_option(col, id) ==
    IF id = NULL_ID THEN None ELSE Some(value_of(col.dictionary, id))

\* RLE::values(row_ids, dst): dst is cleared; the decoded values at the
\* monotonically increasing row_ids, out-of-range row ids dropped.
RLE_values(col, row_ids, dst) ==
    LET ids == gather_ids(col.run_lengths, row_ids, 1, 1, 0)
    IN  [i \in 1..Len(ids) |-> decode_id_option(col, ids[i])]

\* RLE::distinct_values(row_ids, dst): dst is cleared; the decoded value of
\* every id, NULL_ID included, whose bitmap meets row_ids.
RLE_distinct_values(col, row_ids, dst) ==
    { decode_id_option(col, k) :
         k \in { j \in DOMAIN col.index_row_ids :
                    col.index_row_ids[j] \cap SeqToSet(row_ids) # {} } }

\* RLE::has_non_null_value(row_ids): some row id of row_ids lies in the
\* complement of the NULL bitmap within [0, num_rows).
RLE_has_non_null_value(col, row_ids) ==
    SeqToSet(row_ids)
       \cap ({ r \in 0..col.num_rows : r < col.num_rows }
                \ col.index_row_ids[NULL_ID]) # {}

\* RLE::all_values(dst): dst is cleared, then filled with the decoded value of
\* every row, None for a NULL row. The method takes the column mutably, so it
\* gives back the column as well; the column is left as it was.
RLE_all_values(col, dst) ==
    LET ids == expand_runs(col.run_lengths)
    IN  [enc |-> col,
         dst |-> [i \in 1..Len(ids) |-> decode_id_option(col, ids[i])]]

\* ------------------------------------------------------ Encoding dispatch
\* push forwarded to push_additional, which has no order check.
Encoding_push_unchecked(enc, v) ==
    [enc |-> RLE_push_additional(enc, Some(v), 1), err |-> "none"]

Encoding_push(enc, v) == RLE_push(enc, v)

\* push_none that starts a run for every NULL row.
Encoding_push_none_new_run(enc) ==
    [enc EXCEPT
       !.run_lengths   = Append(@, [id |-> NULL_ID, length |-> 1]),
       !.index_row_ids = [@ EXCEPT ![NULL_ID] = @ \cup { enc.num_rows }],
       !.contains_null = TRUE,
       !.num_rows      = @ + 1]

Encoding_push_none(enc) == RLE_push_none(enc)

\* push_additional that applies the order check of push to a value and
\* drops the rows when the value is below the last non-null value.
Encoding_push_additional_ordered(enc, v, additional) ==
    IF v.some /\ RLE_push(enc, v.v).err # "none" THEN enc
    ELSE RLE_push_additional(enc, v, additional)

\* push_additional whose re-index renames the keys of the inverted index and
\* leaves the ids of the run stream as they were.
Encoding_push_additional_stale_runs(enc, v, additional) ==
    LET c == RLE_push_additional(enc, v, additional)
        n == Len(enc.run_lengths)
    IN  [c EXCEPT
           !.run_lengths =
               [i \in 1..Len(c.run_lengths) |->
                   IF i <= n
                   THEN [id     |-> enc.run_lengths[i].id,
                         length |-> c.run_lengths[i].length]
                   ELSE c.run_lengths[i]]]

Encoding_push_additional(enc, v, additional) ==
    RLE_push_additional(enc, v, additional)

Encoding_contains_null(enc) == RLE_contains_null(enc)

\* row_ids_filter that evaluates GT as GTE.
Encoding_row_ids_filter_gt_as_gte(enc, value, op, dst) ==
    RLE_row_ids_filter(enc, value, IF op = "GT" THEN "GTE" ELSE op, dst)

\* row_ids_filter that answers NotEqual with every row outside Equal.
Encoding_row_ids_filter_ne_complement(enc, value, op, dst) ==
    IF op = "NotEqual"
    THEN AscendingSeq({ r \in 0..enc.num_rows : r < enc.num_rows }
                         \ SeqToSet(RLE_row_ids_filter(enc, value, "Equal", dst)))
    ELSE RLE_row_ids_filter(enc, value, op, dst)

Encoding_row_ids_filter(enc, value, op, dst) ==
    RLE_row_ids_filter(enc, value, op, dst)

\* row_ids_null dispatched to the not-null query.
Encoding_row_ids_null_swapped(enc, dst) == RLE_row_ids_not_null(enc, dst)

Encoding_row_ids_null(enc, dst) == RLE_row_ids_null(enc, dst)

\* row_ids_not_null dispatched to the null query.
Encoding_row_ids_not_null_swapped(enc, dst) == RLE_row_ids_null(enc, dst)

Encoding_row_ids_not_null(enc, dst) == RLE_row_ids_not_null(enc, dst)

\* group_row_ids exposing the groups of the non-null ids only.
Encoding_group_row_ids_no_null(enc) ==
    [k \in DOMAIN RLE_group_row_ids(enc) \ {NULL_ID} |->
        RLE_group_row_ids(enc)[k]]

Encoding_group_row_ids(enc) == RLE_group_row_ids(enc)

\* dictionary() returning the slot of NULL_ID as well.
Encoding_dictionary_with_null_slot(enc) == << <<>> >> \o RLE_dictionary(enc)

Encoding_dictionary(enc) == RLE_dictionary(enc)

\* value that takes a row id beyond the last row as the last row.
Encoding_value_clamped(enc, row_id) ==
    RLE_value(enc, IF row_id >= enc.num_rows /\ enc.num_rows > 0
                   THEN enc.num_rows - 1 ELSE row_id)

Encoding_value(enc, row_id) == RLE_value(enc, row_id)

\* all_encoded_values appending to what the caller left in dst.
Encoding_all_encoded_values_appending(enc, dst) ==
    dst \o RLE_all_encoded_values(enc, dst)

Encoding_all_encoded_values(enc, dst) == RLE_all_encoded_values(enc, dst)

\* all_values moving the rows out of the column it borrows mutably.
Encoding_all_values_draining(enc, dst) ==
    [enc |-> RLE_with_dictionary(SeqToSet(enc.dictionary)),
     dst |-> RLE_all_values(enc, dst).dst]

\* Encoding::all_values(&mut self, dst)
Encoding_all_values(enc, dst) == RLE_all_values(enc, dst)

\* All row ids that have either NULL or not NULL values: the is_null argument
\* is not used, the call goes to row_ids_null.
Encoding_row_ids_is_null(enc, is_null, dst) == RLE_row_ids_null(enc, dst)

Encoding_count(enc, row_ids) == RLE_count(enc, row_ids)

\* min dispatched to max.
Encoding_min_as_max(enc, row_ids) == RLE_max(enc, row_ids)

Encoding_min(enc, row_ids) == RLE_min(enc, row_ids)

\* max dispatched to min.
Encoding_max_as_min(enc, row_ids) == RLE_min(enc, row_ids)

Encoding_max(enc, row_ids) == RLE_max(enc, row_ids)

\* contains_other_values that also asks for None when the column has NULLs.
Encoding_contains_other_values_with_null(enc, values) ==
    \/ RLE_contains_other_values(enc, values)
    \/ (RLE_contains_null(enc) /\ None \notin values)

Encoding_contains_other_values(enc, values) ==
    RLE_contains_other_values(enc, values)

\* encoded_values leaving out the NULL rows.
Encoding_encoded_values_skip_null(enc, row_ids, dst) ==
    SelectSeq(RLE_encoded_values(enc, row_ids, dst), LAMBDA id : id # NULL_ID)

Encoding_encoded_values(enc, row_ids, dst) ==
    RLE_encoded_values(enc, row_ids, dst)

\* values giving None for a row id out of range instead of dropping it.
Encoding_values_padded(enc, row_ids, dst) ==
    [i \in 1..Len(row_ids) |-> RLE_value(enc, row_ids[i])]

Encoding_values(enc, row_ids, dst) == RLE_values(enc, row_ids, dst)

\* distinct_values leaving None out of the result.
Encoding_distinct_values_no_none(enc, row_ids, dst) ==
    RLE_distinct_values(enc, row_ids, dst) \ { None }

Encoding_distinct_values(enc, row_ids, dst) ==
    RLE_distinct_values(enc, row_ids, dst)

\* has_non_null_value answering for every row id outside the NULL bitmap, in
\* range or not.
Encoding_has_non_null_value_unbounded(enc, row_ids) ==
    SeqToSet(row_ids) \ enc.index_row_ids[NULL_ID] # {}

\* Encoding::has_non_null_value
Encoding_has_non_null_value(enc, row_ids) == RLE_has_non_null_value(enc, row_ids)

\* ------------------------------------------------------------------ state
VARIABLES
    dictionary,     \* sorted distinct non-null strings; position = id
    run_lengths,    \* the run stream: sequence of [id, length]
    index_row_ids,  \* id -> set of row ids (the bitmap of that id)
    contains_null,  \* whether NULL has been pushed
    num_rows,       \* the row count
    err,            \* outcome of the last call: "none" or "OrderViolation"
    last_call,      \* the last call made on the column
    last_value,     \* Option: the value of the last non-null row appended
    dst,            \* the caller's destination container, kept between calls
    request,        \* the last call made on the gRPC translation layer
    response        \* the Result that call returned

vars == <<dictionary, run_lengths, index_row_ids, contains_null, num_rows,
          err, last_call, last_value, dst, request, response>>

\* The state of the gRPC translation layer, which no column operation touches.
rpc == <<request, response>>

\* The column as one value.
Enc ==
    [dictionary    |-> dictionary,
     run_lengths   |-> run_lengths,
     index_row_ids |-> index_row_ids,
     contains_null |-> contains_null,
     num_rows      |-> num_rows]

SetEnc(c) ==
    /\ dictionary'    = c.dictionary
    /\ run_lengths'   = c.run_lengths
    /\ index_row_ids' = c.index_row_ids
    /\ contains_null' = c.contains_null
    /\ num_rows'      = c.num_rows

WithinBounds(c) == c.num_rows <= MaxRows /\ Len(c.run_lengths) <= MaxRuns

\* Non-decreasing sequences of at most two appended strings (RLE::from).
SortedVecs ==
    { <<>> } \cup { <<v>> : v \in PushValues }
        \cup { s \in PushValues \X PushValues : StrLessEq(s[1], s[2]) }

\* A new column: RLE::default(), RLE::with_dictionary(set) or RLE::from(vec).
Init ==
    /\ \E c \in { RLE_with_dictionary(S) : S \in SUBSET PushValues }
                  \cup { RLE_from(vec) : vec \in SortedVecs } :
          /\ dictionary    = c.dictionary
          /\ run_lengths   = c.run_lengths
          /\ index_row_ids = c.index_row_ids
          /\ contains_null = c.contains_null
          /\ num_rows      = c.num_rows
          /\ last_value    = last_non_null(c)
    /\ err = "none"
    /\ last_call = [op |-> "new"]
    /\ dst = [kind |-> "none", items |-> <<>>]
    /\ request = [fn |-> "none"]
    /\ response = [fn |-> "none"]

\* enc.push(v)
Push(v) ==
    LET res == Encoding_push(Enc, v)
    IN  /\ WithinBounds(res.enc)
        /\ SetEnc(res.enc)
        /\ err' = res.err
        /\ last_call' = [op |-> "push", v |-> Some(v), additional |-> 1]
        /\ last_value' = IF res.err = "none" THEN Some(v) ELSE last_value
        /\ UNCHANGED <<dst, rpc>>

\* enc.push_none()
PushNone ==
    LET c == Encoding_push_none(Enc)
    IN  /\ WithinBounds(c)
        /\ SetEnc(c)
        /\ err' = "none"
        /\ last_call' = [op |-> "push_none", v |-> None, additional |-> 1]
        /\ UNCHANGED <<last_value, dst, rpc>>

\* enc.push_additional(v, additional)
PushAdditional(v, additional) ==
    LET c == Encoding_push_additional(Enc, v, additional)
    IN  /\ WithinBounds(c)
        /\ SetEnc(c)
        /\ err' = "none"
        /\ last_call' = [op |-> "push_additional", v |-> v,
                         additional |-> additional]
        /\ last_value' = IF v.some /\ additional > 0 THEN v ELSE last_value
        /\ UNCHANGED <<dst, rpc>>

Next ==
    \/ \E v \in PushValues : Push(v)
    \/ PushNone
    \/ \E v \in { Some(x) : x \in PushValues } \cup { None },
          additional \in 0..MaxAdditional : PushAdditional(v, additional)

Spec == Init /\ [][Next]_vars

\* ------------------------------------------------- queries on a built column
\* The values a column under query is built from.
OptionValues == { None, Some(<<1>>), Some(<<2>>) }

\* Every sequence of at most MaxRows appended values.
OptionVecs == UNION { [1..n -> OptionValues] : n \in 0..MaxRows }

\* The column after push_additional(vec[i], 1) for every i in order.
RECURSIVE column_of(_)
column_of(vec) ==
    IF vec = <<>> THEN RLE_default
    ELSE Encoding_push_additional(column_of(SubSeq(vec, 1, Len(vec) - 1)),
                                  vec[Len(vec)], 1)

\* A column built by appends, about to be queried; the caller holds no
\* destination container yet.
InitQ ==
    /\ \E vec \in OptionVecs :
          LET c == column_of(vec)
          IN  /\ dictionary    = c.dictionary
              /\ run_lengths   = c.run_lengths
              /\ index_row_ids = c.index_row_ids
              /\ contains_null = c.contains_null
              /\ num_rows      = c.num_rows
              /\ last_value    = last_non_null(c)
    /\ err = "none"
    /\ last_call = [op |-> "new"]
    /\ dst = [kind |-> "none", items |-> <<>>]
    /\ request = [fn |-> "none"]
    /\ response = [fn |-> "none"]

\* Arguments of the queries.
FilterValues == { <<1>>, <<1, 1>> }
QueryRowIds == { AscendingSeq(S) : S \in { T \in SUBSET (0..MaxRows) :
                                              Cardinality(T) <= 2 } }

\* The container the caller passes to a query filling containers of `kind`:
\* the one the last such query gave back, stale entries included, or a new
\* one.
Stale(kind) == IF dst.kind = kind THEN dst.items ELSE <<>>

\* A query through &self: the column is borrowed immutably.
Borrowed ==
    UNCHANGED <<dictionary, run_lengths, index_row_ids, contains_null,
                num_rows, last_value, rpc>>

\* enc.row_ids_filter(v, op, dst)
RowIdsFilter(v, op) ==
    /\ dst' = [kind  |-> "row_ids",
               items |-> Encoding_row_ids_filter(Enc, v, op, Stale("row_ids"))]
    /\ last_call' = [op |-> "row_ids_filter", v |-> v, cmp |-> op,
                     stale |-> Len(Stale("row_ids"))]
    /\ err' = "none"
    /\ Borrowed

\* enc.row_ids_null(dst)
RowIdsNull ==
    /\ dst' = [kind  |-> "row_ids",
               items |-> Encoding_row_ids_null(Enc, Stale("row_ids"))]
    /\ last_call' = [op |-> "row_ids_null", stale |-> Len(Stale("row_ids"))]
    /\ err' = "none"
    /\ Borrowed

\* enc.row_ids_not_null(dst)
RowIdsNotNull ==
    /\ dst' = [kind  |-> "row_ids",
               items |-> Encoding_row_ids_not_null(Enc, Stale("row_ids"))]
    /\ last_call' = [op |-> "row_ids_not_null",
                     stale |-> Len(Stale("row_ids"))]
    /\ err' = "none"
    /\ Borrowed

\* enc.values(row_ids, dst)
Values(row_ids) ==
    /\ dst' = [kind  |-> "values",
               items |-> Encoding_values(Enc, row_ids, Stale("values"))]
    /\ last_call' = [op |-> "values", row_ids |-> row_ids,
                     stale |-> Len(Stale("values"))]
    /\ err' = "none"
    /\ Borrowed

\* enc.all_values(dst): the only query that borrows the column mutably.
AllValues ==
    LET res == Encoding_all_values(Enc, Stale("values"))
    IN  /\ SetEnc(res.enc)
        /\ dst' = [kind |-> "values", items |-> res.dst]
        /\ last_call' = [op |-> "all_values", stale |-> Len(Stale("values"))]
        /\ err' = "none"
        /\ UNCHANGED <<last_value, rpc>>

\* enc.encoded_values(row_ids, dst)
EncodedValues(row_ids) ==
    /\ dst' = [kind  |-> "ids",
               items |-> Encoding_encoded_values(Enc, row_ids, Stale("ids"))]
    /\ last_call' = [op |-> "encoded_values", row_ids |-> row_ids,
                     stale |-> Len(Stale("ids"))]
    /\ err' = "none"
    /\ Borrowed

\* enc.all_encoded_values(dst)
AllEncodedValues ==
    /\ dst' = [kind  |-> "ids",
               items |-> Encoding_all_encoded_values(Enc, Stale("ids"))]
    /\ last_call' = [op |-> "all_encoded_values", stale |-> Len(Stale("ids"))]
    /\ err' = "none"
    /\ Borrowed

\* enc.row_ids_is_null(is_null, dst)
RowIdsIsNull(is_null) ==
    /\ dst' = [kind  |-> "row_ids",
               items |-> Encoding_row_ids_is_null(Enc, is_null,
                                                  Stale("row_ids"))]
    /\ last_call' = [op |-> "row_ids_is_null", is_null |-> is_null,
                     stale |-> Len(Stale("row_ids"))]
    /\ err' = "none"
    /\ Borrowed

\* The BTreeSet the caller passes to distinct_values: the one the last
\* distinct_values gave back, or a new one.
StaleSet == IF dst.kind = "distinct_values" THEN dst.items ELSE {}

\* enc.distinct_values(row_ids, dst)
DistinctValues(row_ids) ==
    /\ dst' = [kind  |-> "distinct_values",
               items |-> Encoding_distinct_values(Enc, row_ids, StaleSet)]
    /\ last_call' = [op |-> "distinct_values", row_ids |-> row_ids,
                     stale |-> Cardinality(StaleSet)]
    /\ err' = "none"
    /\ Borrowed

\* The queries that return a value and take no destination container.
ScalarQueries ==
    { "size", "contains_null", "group_row_ids", "dictionary", "value",
      "decode_id",
      "min", "max", "count", "contains_other_values", "has_non_null_value" }

\* One of the scalar queries: nothing of the column or of the caller's
\* container is written.
Scalar(q) ==
    /\ last_call' = [op |-> q]
    /\ err' = "none"
    /\ Borrowed
    /\ UNCHANGED dst

NextQ ==
    \/ \E v \in FilterValues, op \in Operators : RowIdsFilter(v, op)
    \/ RowIdsNull
    \/ RowIdsNotNull
    \/ \E row_ids \in QueryRowIds : Values(row_ids)
    \/ AllValues
    \/ \E row_ids \in QueryRowIds : EncodedValues(row_ids)
    \/ AllEncodedValues
    \/ \E is_null \in BOOLEAN : RowIdsIsNull(is_null)
    \/ \E row_ids \in QueryRowIds : DistinctValues(row_ids)
    \/ \E q \in ScalarQueries : Scalar(q)

SpecQ == InitQ /\ [][NextQ]_vars

\* ------------------------------------------------- gRPC translation layer
\* Result<T, E>
Ok(v) == [ok |-> TRUE, v |-> v]
Fail(e) == [ok |-> FALSE, error |-> e]

\* convert_aggregate_type(aggregate_type: i32)
convert_aggregate_type(aggregate_type) ==
    IF aggregate_type = 0 THEN Ok("None")
    ELSE IF aggregate_type = 1 THEN Ok("Sum")
    ELSE IF aggregate_type = 2 THEN Ok("Count")
    ELSE IF aggregate_type = 3 THEN Ok("Min")
    ELSE IF aggregate_type = 4 THEN Ok("Max")
    ELSE IF aggregate_type = 5 THEN Ok("First")
    ELSE IF aggregate_type = 6 THEN Ok("Last")
    ELSE IF aggregate_type = 7 THEN Ok("Mean")
    ELSE Fail([name |-> "UnknownAggregate", aggregate_type |-> aggregate_type])

\* convert_aggregate(aggregate: Option<RPCAggregate>)
convert_aggregate(aggregate) ==
    IF ~aggregate.some THEN Fail([name |-> "EmptyAggregate"])
    ELSE LET t == convert_aggregate_type(aggregate.v.type)
         IN  IF ~t.ok THEN t
             ELSE IF t.v = "None" THEN Fail([name |-> "NoneAggregate"])
             ELSE Ok(t.v)

\* convert_duration(duration: Option<RPCDuration>); the error is a string.
convert_duration(duration) ==
    IF ~duration.some THEN Fail("No duration specified in RPC")
    ELSE LET d == duration.v
         IN  CASE d.nsecs # 0 /\ d.months = 0 ->
                    Ok([nanoseconds |-> d.nsecs])
               [] d.nsecs = 0 /\ d.months # 0 ->
                    Ok([months |-> d.months, negative |-> d.negative])
               [] d.nsecs # 0 /\ d.months # 0 ->
                    Fail("duration used as an interval cannot mix month and nanosecond units")
               [] d.nsecs = 0 /\ d.months = 0 ->
                    Fail("duration used as an interval cannot be zero")

\* make_read_window_aggregate taking the nanosecond arguments only when both
\* are positive.
make_read_window_aggregate_both_positive(aggregates, window_every, offset, window) ==
    IF Len(aggregates) # 1
    THEN Fail([name |-> "AggregateNotSingleton", aggregates |-> aggregates])
    ELSE
    LET agg == convert_aggregate(Some(aggregates[1]))
    IN  IF ~agg.ok THEN agg
        ELSE IF window_every > 0 /\ offset > 0
        THEN Ok([agg    |-> agg.v,
                 every  |-> [nanoseconds |-> window_every],
                 offset |-> [nanoseconds |-> offset]])
        ELSE IF ~window.some THEN Fail([name |-> "EmptyWindow"])
        ELSE Fail([name |-> "InvalidDuration", location |-> "window.every",
                   description |-> "duration used as an interval cannot be zero"])

\* make_read_window_aggregate(aggregates, window_every, offset, window)
make_read_window_aggregate(aggregates, window_every, offset, window) ==
    IF Len(aggregates) # 1
    THEN Fail([name |-> "AggregateNotSingleton", aggregates |-> aggregates])
    ELSE
    LET agg == convert_aggregate(Some(aggregates[1]))
    IN  IF ~agg.ok THEN agg
        ELSE IF window_every > 0 \/ offset > 0
        THEN Ok([agg    |-> agg.v,
                 every  |-> [nanoseconds |-> window_every],
                 offset |-> [nanoseconds |-> offset]])
        ELSE IF ~window.some THEN Fail([name |-> "EmptyWindow"])
        ELSE
        LET every == convert_duration(window.v.every)
            off   == convert_duration(window.v.offset)
        IN  IF ~every.ok
            THEN Fail([name |-> "InvalidDuration",
                       location |-> "window.every",
                       description |-> every.error])
            ELSE IF ~off.ok
            THEN Fail([name |-> "InvalidDuration",
                       location |-> "window.offset",
                       description |-> off.error])
            ELSE Ok([agg |-> agg.v, every |-> every.v, offset |-> off.v])

\* A call that ended in a panic instead of returning a Result.
Panic(message) == [ok |-> FALSE, panic |-> message]
IsPanic(res) == "panic" \in DOMAIN res

\* RPCValue: the kind, the operator of a Logical or Comparison value and the
\* payload of the other kinds (strings and tag names as byte sequences).
StringValue(s) == [kind |-> "StringValue", op |-> "", arg |-> s]
FloatValue(f) == [kind |-> "FloatValue", op |-> "", arg |-> <<f>>]
RegexValue(s) == [kind |-> "RegexValue", op |-> "", arg |-> s]
TagRefValue(tag_name) == [kind |-> "TagRefValue", op |-> "", arg |-> tag_name]
FieldRefValue(s) == [kind |-> "FieldRefValue", op |-> "", arg |-> s]
Logical(op) == [kind |-> "Logical", op |-> op, arg |-> <<>>]
Comparison(op) == [kind |-> "Comparison", op |-> op, arg |-> <<>>]

\* RPCNode
RPCNode(node_type, children, value) ==
    [node_type |-> node_type, children |-> children, value |-> value]

\* SpecialTagKeys
is_measurement(tag_name) == tag_name = <<0>>
is_field(tag_name) == tag_name = <<255>>

\* The first error of a sequence of Results, or Ok of the sequence of their
\* values (collect::<Result<Vec<_>>>).
collect(results) ==
    LET bad == { i \in 1..Len(results) : ~results[i].ok }
    IN  IF bad # {}
        THEN results[CHOOSE i \in bad : \A j \in bad : i <= j]
        ELSE Ok([i \in 1..Len(results) |-> results[i].v])

\* normalize_node(node): a value-less node with one child is replaced by the
\* child, any other value-less node is an error.
RECURSIVE normalize_node(_)
normalize_node(node) ==
    LET normalized_children ==
            collect([i \in 1..Len(node.children) |->
                        normalize_node(node.children[i])])
    IN  IF ~normalized_children.ok THEN normalized_children
        ELSE IF ~node.value.some
        THEN IF Len(normalized_children.v) = 1
             THEN Ok(normalized_children.v[1])
             ELSE Fail([name |-> "EmptyPredicateValue"])
        ELSE Ok([node EXCEPT !.children = normalized_children.v])

\* The loop of flatten_ands over the children of an And node, from child i.
RECURSIVE flatten_ands(_, _)
RECURSIVE flatten_children(_, _, _)
flatten_children(children, i, conjuncts) ==
    IF i > Len(children) THEN conjuncts
    ELSE flatten_children(children, i + 1,
                          flatten_ands(children[i], conjuncts))

\* flatten_ands(node, dst): (a AND (b AND c)) into [a, b, c]; `conjuncts` is
\* the vector dst.
flatten_ands(node, conjuncts) ==
    IF node.value = Some(Logical("And"))
    THEN flatten_children(node.children, 1, conjuncts)
    ELSE Append(conjuncts, node)

\* InListBuilder::append_equal(lhs, rhs); self is the builder's inner
\* Option<InList>.
InListBuilder_append_equal(self, lhs, rhs) ==
    LET in_list == IF self.some THEN self.v
                   ELSE [lhs |-> lhs, value_list |-> <<>>]
    IN  IF rhs.value.some /\ rhs.value.v.kind = "StringValue"
        THEN IF in_list.lhs = lhs
             THEN Ok(Some([in_list EXCEPT
                              !.value_list = Append(@, rhs.value.v.arg)]))
             ELSE Fail("lhs did not match")
        ELSE Fail("rhs wasn't a string")

\* InListBuilder::append(node): asserts that an Equal or an Or node has two
\* children.
RECURSIVE InListBuilder_append(_, _)
InListBuilder_append(self, node) ==
    IF node.value = Some(Comparison("Equal"))
    THEN IF Len(node.children) # 2
         THEN Panic("assertion failed: node.children.len() == 2")
         ELSE InListBuilder_append_equal(self, node.children[1],
                                         node.children[2])
    ELSE IF node.value = Some(Logical("Or"))
    THEN IF Len(node.children) # 2
         THEN Panic("assertion failed: node.children.len() == 2")
         ELSE LET s == InListBuilder_append(self, node.children[1])
              IN  IF s.ok THEN InListBuilder_append(s.v, node.children[2])
                  ELSE s
    ELSE Fail("Found something other than equal or OR")

\* InList::try_from(&node): append to a default builder, then build.
InList_try_from(node) ==
    LET b == InListBuilder_append(None, node)
    IN  IF ~b.ok THEN b
        ELSE IF b.v.some THEN Ok(b.v.v)
        ELSE Fail("No sub expressions found")

\* bytes[i] is a continuation byte with a value in lo..hi.
continuation(bytes, i, lo, hi) ==
    i <= Len(bytes) /\ bytes[i] >= lo /\ bytes[i] <= hi

\* The bytes from position i on are well-formed UTF-8: one-byte sequences,
\* two-byte sequences from C2, three-byte sequences without overlong forms
\* and surrogates, four-byte sequences up to U+10FFFF.
RECURSIVE is_utf8(_, _)
is_utf8(bytes, i) ==
    IF i > Len(bytes) THEN TRUE
    ELSE LET b == bytes[i]
         IN  IF b < 128 THEN is_utf8(bytes, i + 1)
             ELSE IF b >= 194 /\ b <= 223
             THEN /\ continuation(bytes, i + 1, 128, 191)
                  /\ is_utf8(bytes, i + 2)
             ELSE IF b >= 224 /\ b <= 239
             THEN /\ continuation(bytes, i + 1,
                                  IF b = 224 THEN 160 ELSE 128,
                                  IF b = 237 THEN 159 ELSE 191)
                  /\ continuation(bytes, i + 2, 128, 191)
                  /\ is_utf8(bytes, i + 3)
             ELSE IF b >= 240 /\ b <= 244
             THEN /\ continuation(bytes, i + 1,
                                  IF b = 240 THEN 144 ELSE 128,
                                  IF b = 244 THEN 143 ELSE 191)
                  /\ continuation(bytes, i + 2, 128, 191)
                  /\ continuation(bytes, i + 3, 128, 191)
                  /\ is_utf8(bytes, i + 4)
             ELSE FALSE

\* String::from_utf8(tag_name).context(ConvertingTagName): the string of the
\* bytes when they are valid UTF-8.
from_utf8(bytes) ==
    IF is_utf8(bytes, 1) THEN Ok(bytes)
    ELSE Fail([name |-> "ConvertingTagName"])

\* make_tag_name(tag_name)
make_tag_name(tag_name) ==
    IF is_measurement(tag_name)
    THEN Fail([name |-> "InternalInvalidMeasurementReference"])
    ELSE IF is_field(tag_name)
    THEN Fail([name |-> "InternalInvalidFieldReference"])
    ELSE from_utf8(tag_name)

\* build_binary_expr(op, inputs)
build_binary_expr(op, inputs) ==
    IF Len(inputs) = 2
    THEN Ok([expr |-> "BinaryExpr", left |-> inputs[1], op |-> op,
             right |-> inputs[2]])
    ELSE Fail([name |-> "UnsupportedNumberOfChildren", op |-> op,
               num_children |-> Len(inputs)])

\* build_logical_node(logical, inputs)
build_logical_node(logical, inputs) ==
    IF logical = "And" THEN build_binary_expr("And", inputs)
    ELSE IF logical = "Or" THEN build_binary_expr("Or", inputs)
    ELSE Fail([name |-> "UnknownLogicalNode", logical |-> logical])

\* build_comparison_node(comparison, inputs)
build_comparison_node(comparison, inputs) ==
    IF comparison = "Equal" THEN build_binary_expr("Eq", inputs)
    ELSE IF comparison = "NotEqual" THEN build_binary_expr("NotEq", inputs)
    ELSE IF comparison = "StartsWith"
    THEN Fail([name |-> "StartsWithNotSupported"])
    ELSE IF comparison = "Regex" THEN Fail([name |-> "RegExpNotSupported"])
    ELSE IF comparison = "NotRegex"
    THEN Fail([name |-> "NotRegExpNotSupported"])
    ELSE IF comparison = "Lt" THEN build_binary_expr("Lt", inputs)
    ELSE IF comparison = "Lte" THEN build_binary_expr("LtEq", inputs)
    ELSE IF comparison = "Gt" THEN build_binary_expr("Gt", inputs)
    ELSE IF comparison = "Gte" THEN build_binary_expr("GtEq", inputs)
    ELSE Fail([name |-> "UnknownComparisonNode", comparison |-> comparison])

\* build_node(value, inputs)
build_node(value, inputs) ==
    IF value.kind \notin { "Logical", "Comparison" } /\ inputs # <<>>
    THEN Fail([name |-> "UnexpectedChildren", value |-> value])
    ELSE CASE value.kind = "StringValue" ->
                 Ok([expr |-> "Literal", type |-> "Utf8", v |-> value.arg])
           [] value.kind = "BoolValue" ->
                 Ok([expr |-> "Literal", type |-> "Boolean", v |-> value.arg])
           [] value.kind = "IntValue" ->
                 Ok([expr |-> "Literal", type |-> "Int64", v |-> value.arg])
           [] value.kind = "UintValue" ->
                 Ok([expr |-> "Literal", type |-> "UInt64", v |-> value.arg])
           [] value.kind = "FloatValue" ->
                 Ok([expr |-> "Literal", type |-> "Float64", v |-> value.arg])
           [] value.kind = "RegexValue" ->
                 Fail([name |-> "RegExpLiteralNotSupported",
                       regexp |-> value.arg])
           [] value.kind = "TagRefValue" ->
                 LET n == make_tag_name(value.arg)
                 IN  IF n.ok THEN Ok([expr |-> "Column", name |-> n.v]) ELSE n
           [] value.kind = "FieldRefValue" ->
                 Ok([expr |-> "Column", name |-> value.arg])
           [] value.kind = "Logical" -> build_logical_node(value.op, inputs)
           [] value.kind = "Comparison" ->
                 build_comparison_node(value.op, inputs)

\* convert_node_to_expr(node): the children first, then the node itself; a
\* value-less node panics (normalization has removed them).
RECURSIVE convert_node_to_expr(_)
convert_node_to_expr(node) ==
    LET inputs == collect([i \in 1..Len(node.children) |->
                              convert_node_to_expr(node.children[i])])
    IN  IF ~inputs.ok THEN inputs
        ELSE IF ~node.value.some
        THEN Panic("Normalization removed all None values")
        ELSE build_node(node.value.v, inputs.v)

\* storage::predicate::PredicateBuilder, as far as this layer uses it.
PredicateBuilder_default ==
    [exprs |-> <<>>, table_names |-> None, field_columns |-> None]
PredicateBuilder_tables(builder, tables) ==
    [builder EXCEPT !.table_names = Some(SeqToSet(tables))]
PredicateBuilder_field_columns(builder, columns) ==
    [builder EXCEPT !.field_columns = Some(SeqToSet(columns))]
PredicateBuilder_add_expr(builder, expr) ==
    [builder EXCEPT !.exprs = Append(@, expr)]

\* convert_simple_node without the special patterns: every conjunct is
\* converted to an expr.
convert_simple_node_generic(builder, node) ==
    LET expr == convert_node_to_expr(node)
    IN  IF expr.ok THEN Ok(PredicateBuilder_add_expr(builder, expr.v))
        ELSE expr

\* convert_simple_node(builder, node)
convert_simple_node(builder, node) ==
    LET in_list == InList_try_from(node)
        expr    == convert_node_to_expr(node)
        lhs     == in_list.v.lhs
    IN  IF IsPanic(in_list) THEN in_list
        ELSE IF /\ in_list.ok
                /\ lhs.value.some
                /\ lhs.value.v.kind = "TagRefValue"
                /\ is_measurement(lhs.value.v.arg)
        THEN Ok(PredicateBuilder_tables(builder, in_list.v.value_list))
        ELSE IF /\ in_list.ok
                /\ lhs.value.some
                /\ lhs.value.v.kind = "TagRefValue"
                /\ is_field(lhs.value.v.arg)
        THEN Ok(PredicateBuilder_field_columns(builder, in_list.v.value_list))
        ELSE IF expr.ok THEN Ok(PredicateBuilder_add_expr(builder, expr.v))
        ELSE expr

\* conjuncts.into_iter().try_fold(self, convert_simple_node), from conjunct i.
RECURSIVE try_fold(_, _, _)
try_fold(builder, conjuncts, i) ==
    IF i > Len(conjuncts) THEN Ok(builder)
    ELSE LET b == convert_simple_node(builder, conjuncts[i])
         IN  IF b.ok THEN try_fold(b.v, conjuncts, i + 1) ELSE b

\* PredicateBuilder::rpc_predicate(self, rpc_predicate: Option<RPCPredicate>)
rpc_predicate(self, predicate) ==
    IF ~predicate.some THEN Ok(self)
    ELSE IF ~predicate.v.root.some
    THEN Fail([name |-> "EmptyPredicateNode"])
    ELSE LET node == normalize_node(predicate.v.root.v)
         IN  IF ~node.ok THEN node
             ELSE try_fold(self, flatten_ands(node.v, <<>>), 1)

\* Arguments of make_read_window_aggregate.
MaxAggregates == 2
AggregateTypes == { 0, 1, 2, 100 }
AggregateVecs ==
    UNION { [1..n -> { [type |-> t] : t \in AggregateTypes }] :
               n \in 0..MaxAggregates }
Nanoseconds == { -1, 0, 5 }
Durations ==
    { None } \cup
    { Some([nsecs |-> n, months |-> m, negative |-> b]) :
         n \in { 0, 5 }, m \in { 0, 3 }, b \in BOOLEAN }
Windows ==
    { None } \cup
    { Some([every |-> e, offset |-> o]) : e \in Durations, o \in Durations }

\* Leaves of predicate trees: the tag references _field (byte 255),
\* _measurement (byte 0), "h", the two-byte name U+00E9 and a truncated
\* three-byte sequence, the strings "a" and "b", the float 5.0, the
\* field reference "h", a regular expression and a leaf without a value.
tag_field == RPCNode("TagRef", <<>>, Some(TagRefValue(<<255>>)))
tag_measurement == RPCNode("TagRef", <<>>, Some(TagRefValue(<<0>>)))
tag_h == RPCNode("TagRef", <<>>, Some(TagRefValue(<<104>>)))
tag_e_acute == RPCNode("TagRef", <<>>, Some(TagRefValue(<<195, 169>>)))
tag_truncated == RPCNode("TagRef", <<>>, Some(TagRefValue(<<226, 130>>)))
string_a == RPCNode("Literal", <<>>, Some(StringValue(<<1>>)))
string_b == RPCNode("Literal", <<>>, Some(StringValue(<<2>>)))
float_5 == RPCNode("Literal", <<>>, Some(FloatValue(5)))
field_h == RPCNode("FieldRef", <<>>, Some(FieldRefValue(<<104>>)))
regex_a == RPCNode("Literal", <<>>, Some(RegexValue(<<1>>)))
no_value == RPCNode("ParenExpression", <<>>, None)

comparison_node(op, children) ==
    RPCNode("ComparisonExpression", children, Some(Comparison(op)))
logical_node(op, children) ==
    RPCNode("LogicalExpression", children, Some(Logical(op)))

\* Trees of depth at most 1: selections of fields and measurements, ordinary
\* comparisons, special tag references in other places, comparison and
\* logical nodes with a wrong number of children or an unknown operator, and
\* value-less nodes.
Atoms ==
    { comparison_node("Equal", <<tag_field, string_a>>),
      comparison_node("Equal", <<tag_field, string_b>>),
      comparison_node("Equal", <<tag_measurement, string_a>>),
      comparison_node("Equal", <<tag_h, string_a>>),
      comparison_node("Equal", <<tag_e_acute, string_a>>),
      comparison_node("Equal", <<tag_truncated, string_a>>),
      comparison_node("Gt", <<field_h, float_5>>),
      comparison_node("Equal", <<tag_field, float_5>>),
      comparison_node("Gt", <<tag_measurement, float_5>>),
      comparison_node("Equal", <<>>),
      comparison_node("Equal", <<tag_h>>),
      comparison_node("Gt", <<>>),
      comparison_node("Regex", <<tag_h, regex_a>>),
      comparison_node("42", <<float_5, float_5>>),
      logical_node("42", <<float_5, float_5>>),
      logical_node("Or", <<>>),
      logical_node("And", << comparison_node("Gt", <<field_h, float_5>>) >>),
      RPCNode("ParenExpression",
              << comparison_node("Equal", <<tag_field, string_a>>) >>, None),
      no_value }

\* x AND y, x OR y for atoms x, y.
Pairs ==
    { logical_node(op, <<x, y>>) : op \in { "And", "Or" }, x \in Atoms,
                                   y \in Atoms }

\* (x op y) AND z, (x op y) OR z for atoms x, y, z.
Triples ==
    { logical_node(op, <<p, z>>) : op \in { "And", "Or" }, p \in Pairs,
                                   z \in Atoms }

\* The predicates given to rpc_predicate: no predicate, a predicate without
\* root and the trees above.
Predicates ==
    { None, Some([root |-> None]) } \cup
    { Some([root |-> Some(t)]) : t \in Atoms \cup Pairs \cup Triples }

\* No call has returned yet.
NoResponse == [fn |-> "none"]

\* A call of the translation layer about to be made, with its arguments; the
\* layer holds no column of its own.
InitRpc ==
    /\ dictionary    = RLE_default.dictionary
    /\ run_lengths   = RLE_default.run_lengths
    /\ index_row_ids = RLE_default.index_row_ids
    /\ contains_null = RLE_default.contains_null
    /\ num_rows      = RLE_default.num_rows
    /\ last_value = None
    /\ err = "none"
    /\ last_call = [op |-> "new"]
    /\ dst = [kind |-> "none", items |-> <<>>]
    /\ response = NoResponse
    /\ \/ \E aggregates \in AggregateVecs, window_every \in Nanoseconds,
             offset \in Nanoseconds, window \in Windows :
             request = [fn |-> "make_read_window_aggregate",
                        aggregates |-> aggregates,
                        window_every |-> window_every,
                        offset |-> offset, window |-> window]
       \/ \E predicate \in Predicates :
             request = [fn |-> "rpc_predicate", predicate |-> predicate]

\* A call on the translation layer: no column is read or written.
NoColumn ==
    UNCHANGED <<dictionary, run_lengths, index_row_ids, contains_null,
                num_rows, err, last_call, last_value, dst>>

\* make_read_window_aggregate(aggregates, window_every, offset, window)
MakeReadWindowAggregate ==
    /\ request.fn = "make_read_window_aggregate"
    /\ response = NoResponse
    /\ response' = make_read_window_aggregate(request.aggregates,
                                              request.window_every,
                                              request.offset, request.window)
    /\ UNCHANGED request
    /\ NoColumn

\* PredicateBuilder::default().rpc_predicate(predicate)
RpcPredicate ==
    /\ request.fn = "rpc_predicate"
    /\ response = NoResponse
    /\ response' = rpc_predicate(PredicateBuilder_default, request.predicate)
    /\ UNCHANGED request
    /\ NoColumn

NextRpc ==
    \/ MakeReadWindowAggregate
    \/ RpcPredicate

SpecRpc == InitRpc /\ [][NextRpc]_vars

\* ------------------------------------------------------------- properties
\* The row ids [0, n).
RowIds(n) == { r \in 0..n : r < n }

\* The encoded id of every row, by expanding the run stream.
EncodedIds == Encoding_all_encoded_values(Enc, <<>>)

\* Sum of the cardinalities of the bitmaps of the ids in K.
RECURSIVE SumCard(_, _)
SumCard(g, K) ==
    IF K = {} THEN 0
    ELSE LET k == CHOOSE x \in K : TRUE
         IN  Cardinality(g[k]) + SumCard(g, K \ {k})

\* C1: after any sequence of successful appends, on an empty or pre-seeded
\* column, dictionary() holds distinct strings in strictly ascending order,
\* holds no entry for NULL (every entry is a string that was given to the
\* column), and the id of every non-null row is the 1-based position of its
\* value in dictionary(); the rows just appended carry the position of the
\* appended value.
Thm_C1_DictionarySorted ==
    LET d == Encoding_dictionary(Enc)
    IN  /\ \A i, j \in 1..Len(d) : i < j => StrLess(d[i], d[j])
        /\ \A i \in 1..Len(d) : d[i] \in PushValues
        /\ \A r \in RowIds(num_rows) :
              LET val == Encoding_value(Enc, r)
              IN  val.some =>
                    /\ EncodedIds[r + 1] \in 1..Len(d)
                    /\ d[EncodedIds[r + 1]] = val.v
        /\ \A r, q \in RowIds(num_rows) :
              LET a == Encoding_value(Enc, r)
                  b == Encoding_value(Enc, q)
              IN  (a.some /\ b.some) =>
                    (EncodedIds[r + 1] < EncodedIds[q + 1] <=> StrLess(a.v, b.v))
        /\ (err = "none" /\ last_call.op # "new" /\ last_call.v.some
              /\ last_call.additional > 0) =>
              /\ EncodedIds[num_rows] # NULL_ID
              /\ EncodedIds[num_rows] = lookup(d, last_call.v.v)

\* A value sorting before every existing entry was appended to a column that
\* already holds rows of two other values.
Wit_C1_InsertedBeforeExisting ==
    /\ Encoding_dictionary(Enc) = << <<1>>, <<1, 2>>, <<2>> >>
    /\ last_call.op = "push_additional"
    /\ last_call.v = Some(<<1>>)
    /\ last_call.additional = 1
    /\ num_rows = 3
    /\ EncodedIds = <<3, 2, 1>>

\* C2: for every id k, 0 included, the bitmap of group_row_ids() for k holds
\* exactly the row ids below the row count whose encoded value is k, and every
\* row's id has a bitmap.
Thm_C2_BitmapsExact ==
    LET g == Encoding_group_row_ids(Enc)
    IN  /\ NULL_ID \in DOMAIN g
        /\ \A r \in RowIds(num_rows) : EncodedIds[r + 1] \in DOMAIN g
        /\ \A k \in DOMAIN g :
              g[k] = { r \in RowIds(num_rows) : EncodedIds[r + 1] = k }

\* Bitmaps after a re-index: the value "a" was appended last and took id 1,
\* the row of "b" moved from id 1 to id 2, a NULL row in between.
Wit_C2_BitmapsAfterReindex ==
    /\ Encoding_dictionary(Enc) = << <<1>>, <<2>> >>
    /\ EncodedIds = <<2, 0, 1>>
    /\ Encoding_group_row_ids(Enc)[2] = {0}
    /\ Encoding_group_row_ids(Enc)[1] = {2}
    /\ Encoding_group_row_ids(Enc)[NULL_ID] = {1}

\* C3: the row count equals the sum of the run lengths and equals the sum of
\* the cardinalities of the bitmaps of all ids, id 0 included.
Thm_C3_RowCountSums ==
    /\ num_rows = rows_upto(run_lengths, Len(run_lengths))
    /\ num_rows = SumCard(index_row_ids, DOMAIN index_row_ids)

\* Several runs, one of them extended, NULL rows included.
Wit_C3_SeveralRuns ==
    /\ num_rows >= 3
    /\ Len(run_lengths) >= 2
    /\ \E i \in 1..Len(run_lengths) : run_lengths[i].length >= 2
    /\ Cardinality(index_row_ids[NULL_ID]) >= 1
    /\ Len(dictionary) >= 1

\* C4: row ids are assigned 0, 1, 2, ... in append order: a successful append
\* of n rows gives the value appended to the rows num_rows .. num_rows+n-1,
\* and value(r) of every row appended before is the same after the append,
\* also when the append adds a dictionary value sorting before existing ones.
Thm_C4_RowsStable ==
    [][ /\ num_rows' >= num_rows
        /\ \A r \in RowIds(num_rows) :
              Encoding_value(Enc', r) = Encoding_value(Enc, r)
        /\ (err' = "none") =>
              /\ num_rows' = num_rows + last_call'.additional
              /\ \A r \in RowIds(num_rows') \ RowIds(num_rows) :
                    Encoding_value(Enc', r) = last_call'.v
      ]_vars

\* "ab" was appended after rows of "a" and "b": the id of "b" moved from 2
\* to 3.
Wit_C4_ReindexInTheMiddle ==
    /\ last_call.op = "push_additional"
    /\ last_call.v = Some(<<1, 2>>)
    /\ Encoding_dictionary(Enc) = << <<1>>, <<1, 2>>, <<2>> >>
    /\ EncodedIds = <<1, 3, 2>>
    /\ Encoding_value(Enc, 1) = Some(<<2>>)

\* C5: push(v) fails with OrderViolation exactly when v is strictly less than
\* the last appended non-null value, the value of the last non-null row (NULL
\* rows appended after that value do not matter); otherwise, also when no
\* non-null value was appended yet, it succeeds and appends one row of v.
Cex_C5_PushOrder ==
    [][ (last_call'.op = "push") =>
          /\ err' \in { "none", "OrderViolation" }
          /\ (err' = "OrderViolation") <=>
                (last_value.some /\ StrLess(last_call'.v.v, last_value.v))
          /\ (err' = "none") =>
                /\ num_rows' = num_rows + 1
                /\ Encoding_value(Enc', num_rows) = last_call'.v
      ]_vars

\* C6: a push that fails with OrderViolation leaves dictionary, run stream,
\* inverted index, null flag and row count as they were before the call.
Thm_C6_FailedPushChangesNothing ==
    [][ (err' = "OrderViolation") =>
          /\ dictionary' = dictionary
          /\ run_lengths' = run_lengths
          /\ index_row_ids' = index_row_ids
          /\ contains_null' = contains_null
          /\ num_rows' = num_rows
      ]_vars

\* The push that failed was of a value the dictionary does not hold.
Wit_C6_FailedPushOfNewValue ==
    /\ err = "OrderViolation"
    /\ last_call.op = "push"
    /\ lookup(dictionary, last_call.v.v) = NULL_ID
    /\ num_rows >= 2
    /\ Len(dictionary) >= 1

\* A sequence of row ids is strictly ascending.
IsAscending(s) == \A i, j \in 1..Len(s) : i < j => s[i] < s[j]

\* a op b on strings, for the four order comparisons.
Compare(a, op, b) ==
    CASE op = "LT"  -> StrLess(a, b)
      [] op = "LTE" -> StrLessEq(a, b)
      [] op = "GT"  -> StrLess(b, a)
      [] op = "GTE" -> StrLessEq(b, a)

\* value(r) of every row id 0..MaxRows, in range or not.
RowValues == [ r \in 0..MaxRows |-> Encoding_value(Enc, r) ]

\* The rows holding a non-null value.
NonNullRows == { r \in RowIds(num_rows) : Encoding_value(Enc, r).some }

\* C7: for every string v, in the dictionary or not, row_ids_filter(v, Equal),
\* row_ids_filter(v, NotEqual) and row_ids_null() are pairwise disjoint and
\* their union is [0, row_count).
Thm_C7_EqualNotEqualNullPartition ==
    \A v \in QueryValues :
       LET eq == SeqToSet(Encoding_row_ids_filter(Enc, v, "Equal", <<>>))
           ne == SeqToSet(Encoding_row_ids_filter(Enc, v, "NotEqual", <<>>))
           nl == SeqToSet(Encoding_row_ids_null(Enc, <<>>))
       IN  /\ eq \cap ne = {}
           /\ eq \cap nl = {}
           /\ ne \cap nl = {}
           /\ eq \cup ne \cup nl = RowIds(num_rows)

\* For "ab" each of the three sets has a row.
Wit_C7_ThreeNonEmptyParts ==
    /\ Encoding_row_ids_filter(Enc, <<1, 2>>, "Equal", <<>>) # <<>>
    /\ Encoding_row_ids_filter(Enc, <<1, 2>>, "NotEqual", <<>>) # <<>>
    /\ Encoding_row_ids_null(Enc, <<>>) # <<>>
    /\ num_rows = 3

\* C8: for op in {LT, LTE, GT, GTE} and every string v, in the dictionary or
\* not, row_ids_filter(v, op) is strictly ascending and holds exactly the rows
\* below row_count whose value is non-null and satisfies value(r) op v; a NULL
\* row is never returned and LT of the smallest dictionary entry is empty.
Thm_C8_RangeFilters ==
    /\ LET rv == RowValues
           nn == NonNullRows
       IN  \A v \in QueryValues : \A op \in { "LT", "LTE", "GT", "GTE" } :
              LET res == Encoding_row_ids_filter(Enc, v, op, <<>>)
              IN  /\ IsAscending(res)
                  /\ SeqToSet(res) =
                        { r \in nn : Compare(rv[r].v, op, v) }
    /\ Len(Encoding_dictionary(Enc)) > 0 =>
          Encoding_row_ids_filter(Enc, Encoding_dictionary(Enc)[1], "LT", <<>>)
             = <<>>

\* "aa" is not in the dictionary {a, ab, b}: GT "aa" selects the row of "b"
\* and leaves out the rows of "a" and NULL.
Wit_C8_RangeOfAbsentValue ==
    /\ Encoding_dictionary(Enc) = << <<1>>, <<1, 2>>, <<2>> >>
    /\ EncodedIds = <<1, 0, 3>>
    /\ Encoding_row_ids_filter(Enc, <<1, 1>>, "GT", <<>>) = <<2>>
    /\ Encoding_row_ids_filter(Enc, <<1, 1>>, "LTE", <<>>) = <<0>>

\* C9: row_ids_filter(v, NotEqual) holds exactly the rows with a non-null
\* value different from v: every non-null row when v is not in the dictionary,
\* never a NULL row.
Thm_C9_NotEqual ==
    LET rv == RowValues
        nn == NonNullRows
    IN  \A v \in QueryValues :
           LET res == Encoding_row_ids_filter(Enc, v, "NotEqual", <<>>)
           IN  /\ IsAscending(res)
               /\ SeqToSet(res) = { r \in nn : rv[r].v # v }
               /\ (lookup(Encoding_dictionary(Enc), v) = NULL_ID) =>
                     SeqToSet(res) = nn

\* NotEqual "bb" (not in the dictionary) on a column with a NULL row between
\* value rows returns the value rows only.
Wit_C9_NotEqualAbsentValue ==
    /\ lookup(Encoding_dictionary(Enc), <<2, 2>>) = NULL_ID
    /\ EncodedIds = <<2, 0, 1>>
    /\ Encoding_row_ids_filter(Enc, <<2, 2>>, "NotEqual", <<>>) = <<0, 2>>

\* C10: row_ids_null() holds in ascending order exactly the rows whose id is
\* 0, and row_ids_not_null() exactly the other rows of [0, row_count).
Thm_C10_NullNotNull ==
    LET nl == Encoding_row_ids_null(Enc, <<>>)
        nn == Encoding_row_ids_not_null(Enc, <<>>)
    IN  /\ IsAscending(nl)
        /\ IsAscending(nn)
        /\ SeqToSet(nl) = { r \in RowIds(num_rows) : EncodedIds[r + 1] = NULL_ID }
        /\ SeqToSet(nn) = { r \in RowIds(num_rows) : EncodedIds[r + 1] # NULL_ID }
        /\ SeqToSet(nl) \cap SeqToSet(nn) = {}
        /\ SeqToSet(nl) \cup SeqToSet(nn) = RowIds(num_rows)

\* A NULL row between value rows.
Wit_C10_InterleavedNulls ==
    /\ Encoding_row_ids_null(Enc, <<>>) = <<1>>
    /\ Encoding_row_ids_not_null(Enc, <<>>) = <<0, 2>>
    /\ num_rows = 3

\* Strictly increasing sequences of row ids, in range and out of range (row id
\* MaxRows is out of range for every column).
RowIdSeqs == { AscendingSeq(S) : S \in SUBSET (0..MaxRows) }

\* C11: row_ids_is_null(is_null, dst) gives the rows of row_ids_null when
\* is_null is true and the rows of row_ids_not_null when is_null is false.
Cex_C11_IsNullBranches ==
    \A is_null \in BOOLEAN :
       Encoding_row_ids_is_null(Enc, is_null, <<>>) =
          IF is_null THEN Encoding_row_ids_null(Enc, <<>>)
          ELSE Encoding_row_ids_not_null(Enc, <<>>)

\* C12: for every strictly increasing sequence R of row ids, count(R) plus the
\* number of r in R for which value(r) is None (NULL rows and row ids at or
\* beyond the row count) is the length of R.
Cex_C12_CountPlusNone ==
    \A R \in RowIdSeqs :
       Encoding_count(Enc, R)
          + Cardinality({ i \in 1..Len(R) : ~Encoding_value(Enc, R[i]).some })
          = Len(R)

\* The non-null values held by the rows of R, rv being RowValues.
SelectedValues(rv, R) ==
    { rv[R[i]].v : i \in { j \in 1..Len(R) : rv[R[j]].some } }

\* C13: min(R) is the smallest non-null value held by a row of R, and it is
\* None exactly when no row of R holds a non-null value; a NULL row of R is
\* never the minimum when R selects a non-null row too.
Thm_C13_Min ==
    LET rv == RowValues
    IN  \A R \in RowIdSeqs :
           LET m  == Encoding_min(Enc, R)
               sv == SelectedValues(rv, R)
           IN  /\ m.some <=> sv # {}
               /\ m.some =>
                     /\ m.v \in sv
                     /\ \A w \in sv : StrLessEq(m.v, w)

\* Rows "b", NULL, "a": the minimum of all rows is "a", of the first two rows
\* "b", of the NULL row alone None.
Wit_C13_MinSkipsNull ==
    /\ EncodedIds = <<2, 0, 1>>
    /\ Encoding_min(Enc, <<0, 1, 2>>) = Some(<<1>>)
    /\ Encoding_min(Enc, <<0, 1>>) = Some(<<2>>)
    /\ Encoding_min(Enc, <<1>>) = None

\* C14: max(R) is the largest non-null value held by a row of R, and it is
\* None exactly when no row of R holds a non-null value (as max([0]) on a new
\* column); when min(R) and max(R) are both Some, min(R) <= max(R).
Thm_C14_Max ==
    LET rv == RowValues
    IN  \A R \in RowIdSeqs :
           LET m  == Encoding_max(Enc, R)
               lo == Encoding_min(Enc, R)
               sv == SelectedValues(rv, R)
           IN  /\ m.some <=> sv # {}
               /\ m.some =>
                     /\ m.v \in sv
                     /\ \A w \in sv : StrLessEq(w, m.v)
               /\ (m.some /\ lo.some) => StrLessEq(lo.v, m.v)

\* Rows "a", NULL, "b": the maximum of all rows is "b", of the first two rows
\* "a", of the NULL row and of an out-of-range row None.
Wit_C14_MaxSkipsNull ==
    /\ EncodedIds = <<1, 0, 2>>
    /\ Encoding_max(Enc, <<0, 1, 2>>) = Some(<<2>>)
    /\ Encoding_max(Enc, <<0, 1>>) = Some(<<1>>)
    /\ Encoding_max(Enc, <<1, 3>>) = None
    /\ Encoding_min(Enc, <<0, 1, 2>>) = Some(<<1>>)

\* Sets of Option<String> given to contains_other_values: None, the appended
\* strings and "bb", which no column holds.
ValueSets ==
    SUBSET ({ None } \cup { Some(v) : v \in PushValues \cup { <<2, 2>> } })

\* The non-null values held by the rows of the column.
ColumnValues == { Encoding_value(Enc, r).v : r \in NonNullRows }

\* C15: contains_other_values(S) is false exactly when every non-null value
\* held by a row of the column is in S; NULL rows, None in S and members of S
\* that the column does not hold make no difference.
Thm_C15_ContainsOtherValues ==
    LET cv == ColumnValues
    IN  \A S \in ValueSets :
           LET c == Encoding_contains_other_values(Enc, S)
           IN  /\ ~c <=> (\A v \in cv : Some(v) \in S)
               /\ c = Encoding_contains_other_values(Enc, S \cup { None })
               /\ c = Encoding_contains_other_values(Enc, S \ { None })
               /\ c = Encoding_contains_other_values(Enc,
                                                     S \cup { Some(<<2, 2>>) })

\* A column of "a", NULL, "b": {a, b} without None covers it, {a, None} does
\* not.
Wit_C15_NullRowsIgnored ==
    /\ EncodedIds = <<1, 0, 2>>
    /\ ~Encoding_contains_other_values(Enc, { Some(<<1>>), Some(<<2>>) })
    /\ Encoding_contains_other_values(Enc, { Some(<<1>>), None })

\* C16: all_encoded_values() has one entry per row, entry r being the encoded
\* id of row r (the id whose bitmap holds r, 0 for a NULL row, the id that
\* value(r) decodes), and encoded_values over the row ids 0..row_count gives
\* the same sequence.
Thm_C16_AllEncodedValues ==
    LET all == Encoding_all_encoded_values(Enc, <<>>)
    IN  /\ Len(all) = num_rows
        /\ \A r \in RowIds(num_rows) :
              /\ all[r + 1] \in DOMAIN Encoding_group_row_ids(Enc)
              /\ r \in Encoding_group_row_ids(Enc)[all[r + 1]]
              /\ Encoding_value(Enc, r) =
                    IF all[r + 1] = NULL_ID THEN None
                    ELSE Some(Encoding_dictionary(Enc)[all[r + 1]])
        /\ Encoding_encoded_values(Enc, AscendingSeq(RowIds(num_rows)), <<>>)
              = all

\* A run of two rows of "b", a NULL row, and "a" in the dictionary before "b".
Wit_C16_ExpandedRuns ==
    /\ Encoding_dictionary(Enc) = << <<1>>, <<2>> >>
    /\ Encoding_all_encoded_values(Enc, <<>>) = <<2, 2, 0>>
    /\ Encoding_encoded_values(Enc, <<0, 1, 2>>, <<>>) = <<2, 2, 0>>
    /\ Len(run_lengths) = 2

\* C17: push_additional(Some(v), n) of a value v that the dictionary already
\* holds (pre-seeded or appended before) succeeds whatever was appended last,
\* leaves dictionary() as it was, and the n new rows carry v's 1-based position
\* in the dictionary as their id.
Thm_C17_PushAdditionalKnownValue ==
    [][ ( /\ last_call'.op = "push_additional"
          /\ last_call'.v.some
          /\ lookup(Encoding_dictionary(Enc), last_call'.v.v) # NULL_ID ) =>
          /\ err' = "none"
          /\ Encoding_dictionary(Enc') = Encoding_dictionary(Enc)
          /\ num_rows' = num_rows + last_call'.additional
          /\ \A r \in RowIds(num_rows') \ RowIds(num_rows) :
                /\ Encoding_all_encoded_values(Enc', <<>>)[r + 1]
                      = lookup(Encoding_dictionary(Enc), last_call'.v.v)
                /\ Encoding_value(Enc', r) = last_call'.v
      ]_vars

\* "a" was appended after "b" on a column whose dictionary {a, ab, b} holds
\* "ab" without a row of it: the ids are <<3, 1>>, in dictionary order.
Wit_C17_DictionaryOrderNotInsertionOrder ==
    /\ Encoding_dictionary(Enc) = << <<1>>, <<1, 2>>, <<2>> >>
    /\ Encoding_all_encoded_values(Enc, <<>>) = <<3, 1>>
    /\ last_call.op = "push_additional"
    /\ last_call.v = Some(<<1>>)
    /\ last_call.additional = 1
    /\ Encoding_value(Enc, 0) = Some(<<2>>)
    /\ Encoding_value(Enc, 1) = Some(<<1>>)

\* C18: value(r) is the string of the run covering row r when r is below the
\* row count and the row is non-null (the dictionary string of the id whose
\* bitmap holds r); it is None when row r is NULL and when r is at or beyond
\* the row count.
Thm_C18_Value ==
    \A r \in 0..(MaxRows + 1) :
       LET g == Encoding_group_row_ids(Enc)
       IN  /\ Encoding_value(Enc, r) \in
                 { None } \cup { Some(v) : v \in PushValues }
           /\ (r >= num_rows) => Encoding_value(Enc, r) = None
           /\ (r < num_rows) =>
                 /\ \E k \in DOMAIN g : r \in g[k]
                 /\ \A k \in DOMAIN g :
                       (r \in g[k]) =>
                          Encoding_value(Enc, r) =
                             IF k = NULL_ID THEN None
                             ELSE Some(Encoding_dictionary(Enc)[k])

\* Rows "b", "b", NULL: value(1) is "b" from the run of two, value(2) is None
\* for the NULL row and value(3) is None for a row id out of range.
Wit_C18_NullAndOutOfRange ==
    /\ num_rows = 3
    /\ run_lengths[1].length = 2
    /\ Encoding_value(Enc, 1) = Some(<<2>>)
    /\ 2 \in Encoding_group_row_ids(Enc)[NULL_ID]
    /\ Encoding_value(Enc, 2) = None
    /\ Encoding_value(Enc, 3) = None

\* The row ids of R that are below the row count, in the order of R.
InRange(R) == SelectSeq(R, LAMBDA r : r < num_rows)

\* C19: for a strictly increasing R, values(R, dst) has, in the order of R, one
\* entry per r of R below the row count (the row's string, None for a NULL
\* row) and none for a row id at or beyond the row count.
Thm_C19_Values ==
    LET rv == RowValues
    IN  \A R \in RowIdSeqs :
           LET res == Encoding_values(Enc, R, <<>>)
               inr == InRange(R)
           IN  /\ Len(res) = Len(inr)
               /\ \A i \in 1..Len(inr) : res[i] = rv[inr[i]]

\* Rows "a", NULL, "b": rows 0, 1 and the out-of-range 4 give "a" and None;
\* out-of-range row ids alone give nothing.
Wit_C19_OutOfRangeDropped ==
    /\ Encoding_all_encoded_values(Enc, <<>>) = <<1, 0, 2>>
    /\ Encoding_values(Enc, <<0, 1, 4>>, <<>>) = << Some(<<1>>), None >>
    /\ Encoding_values(Enc, <<1, 2>>, <<>>) = << None, Some(<<2>>) >>
    /\ Encoding_values(Enc, <<3, 4>>, <<>>) = <<>>

\* C20: distinct_values(R, {}) is the set of the values held by the rows of R
\* below the row count; it holds None exactly when one of these rows is NULL,
\* and row ids at or beyond the row count add nothing.
Thm_C20_DistinctValues ==
    LET rv  == RowValues
        ids == Encoding_all_encoded_values(Enc, <<>>)
    IN  \A R \in RowIdSeqs :
           LET res == Encoding_distinct_values(Enc, R, {})
               sel == SeqToSet(InRange(R))
           IN  /\ res = { rv[r] : r \in sel }
               /\ (None \in res) <=> (\E r \in sel : ids[r + 1] = NULL_ID)
               /\ (sel = {}) => res = {}

\* Rows "a", NULL, "b": rows 0, 1 and the out-of-range 4 give {"a", None},
\* rows 0 and 2 give {"a", "b"} without None, out-of-range ids give {}.
Wit_C20_NoneOnlyForSelectedNull ==
    /\ Encoding_all_encoded_values(Enc, <<>>) = <<1, 0, 2>>
    /\ Encoding_distinct_values(Enc, <<0, 1, 4>>, {}) = { Some(<<1>>), None }
    /\ Encoding_distinct_values(Enc, <<0, 2>>, {}) = { Some(<<1>>), Some(<<2>>) }
    /\ Encoding_distinct_values(Enc, <<3, 4>>, {}) = {}

\* C21: has_non_null_value(R) is true exactly when some r of R is below the
\* row count and holds a non-null value; NULL rows and row ids at or beyond the
\* row count never make it true.
Thm_C21_HasNonNullValue ==
    LET rv == RowValues
    IN  \A R \in RowIdSeqs :
           Encoding_has_non_null_value(Enc, R)
              <=> (\E i \in 1..Len(R) : R[i] < num_rows /\ rv[R[i]].some)

\* Rows "a", NULL: the NULL row with two out-of-range row ids gives false, the
\* same selection with row 0 gives true.
Wit_C21_NullAndOutOfRangeOnly ==
    /\ EncodedIds = <<1, 0>>
    /\ ~Encoding_has_non_null_value(Enc, <<1, 2, 3>>)
    /\ Encoding_has_non_null_value(Enc, <<0, 1, 2>>)

\* The queries that fill a destination vector, row_ids_is_null (which hands
\* its container on to row_ids_null) included.
DstQueries ==
    { "row_ids_filter", "row_ids_null", "row_ids_not_null", "row_ids_is_null",
      "values", "all_values", "encoded_values", "all_encoded_values" }

\* The queries that give a container back: those and distinct_values, which
\* fills a set.
ContainerQueries == DstQueries \cup { "distinct_values" }

\* What the call `call` gives back on the column enc for the container d.
Asked(enc, call, d) ==
    CASE call.op = "row_ids_filter" ->
            Encoding_row_ids_filter(enc, call.v, call.cmp, d)
      [] call.op = "row_ids_null" -> Encoding_row_ids_null(enc, d)
      [] call.op = "row_ids_not_null" -> Encoding_row_ids_not_null(enc, d)
      [] call.op = "row_ids_is_null" ->
            Encoding_row_ids_is_null(enc, call.is_null, d)
      [] call.op = "distinct_values" ->
            Encoding_distinct_values(enc, call.row_ids, d)
      [] call.op = "values" -> Encoding_values(enc, call.row_ids, d)
      [] call.op = "all_values" -> Encoding_all_values(enc, d).dst
      [] call.op = "encoded_values" ->
            Encoding_encoded_values(enc, call.row_ids, d)
      [] call.op = "all_encoded_values" -> Encoding_all_encoded_values(enc, d)

\* What the call `call` produces on the column enc in a new, empty container.
Produced(enc, call) == Asked(enc, call, <<>>)

\* C22: whatever the caller left in dst, a query that takes dst gives back
\* exactly the entries this call produces (those it produces in an empty
\* container), at most one per row and, for row ids, strictly ascending;
\* all_values gives the value of every row in row order.
Thm_C22_DstDiscarded ==
    [][ last_call'.op \in DstQueries =>
           /\ dst'.items = Produced(Enc, last_call')
           /\ Len(dst'.items) <= num_rows
           /\ dst'.kind = "row_ids" => IsAscending(dst'.items)
           /\ last_call'.op = "all_values" =>
                 dst'.items = [i \in 1..num_rows |-> RowValues[i - 1]] ]_vars

\* values() on a container that held two entries of an earlier call gives
\* back the single entry of this call.
Wit_C22_StaleEntriesGone ==
    /\ last_call.op = "values"
    /\ last_call.stale = 2
    /\ dst.items = << None >>

\* The three append operations.
Appends == { "push", "push_none", "push_additional" }

\* C23: a call that is not one of the three appends, all_values included,
\* leaves dictionary, run stream, inverted index, null flag and row count as
\* they were, and the same query asked again right after it, with the
\* container it gave back, gives the same result.
Thm_C23_QueriesReadOnly ==
    [][ last_call'.op \notin Appends =>
           /\ Enc' = Enc
           /\ last_call'.op \in ContainerQueries =>
                 Asked(Enc', last_call', dst'.items) = dst'.items ]_vars

\* all_values() has run on a column of "b", NULL, "a" (the dictionary was
\* re-indexed while it was built) and the column still holds its three rows.
Wit_C23_AllValuesOnBuiltColumn ==
    /\ last_call.op = "all_values"
    /\ dst.items = << Some(<<2>>), None, Some(<<1>>) >>
    /\ EncodedIds = <<2, 0, 1>>
    /\ contains_null

\* No two consecutive runs of the stream have the same id.
NoAdjacentEqualRuns(runs) ==
    \A i \in 1..Len(runs) : i < Len(runs) => runs[i].id # runs[i + 1].id

\* A successful append whose id is the id of the last run adds its rows to
\* that run and starts none; ids are compared after the re-index, if any.
ExtendsLastRun ==
    (last_call'.op \in Appends /\ err' = "none") =>
        LET id   == IF last_call'.v.some
                    THEN lookup(dictionary', last_call'.v.v) ELSE NULL_ID
            last == Len(run_lengths)
        IN  (last > 0 /\ run_lengths'[last].id = id) =>
               /\ Len(run_lengths') = last
               /\ run_lengths'[last].length
                     = run_lengths[last].length + last_call'.additional

\* C26: after any sequence of appends no two consecutive runs have the same
\* id: an append of the id of the last run, NULL or value, extends that run.
Thm_C26_NoAdjacentEqualRuns ==
    /\ []NoAdjacentEqualRuns(run_lengths)
    /\ [][ExtendsLastRun]_vars

\* A second NULL row has been pushed after "a", NULL: the stream still has two
\* runs, the NULL run of length 2.
Wit_C26_NullRunExtended ==
    /\ last_call.op = "push_none"
    /\ Len(run_lengths) = 2
    /\ run_lengths[1] = [id |-> 1, length |-> 1]
    /\ run_lengths[2] = [id |-> NULL_ID, length |-> 2]

\* C27: contains_null() is true exactly when the bitmap of id 0 is non-empty,
\* that is when the column has a NULL row.
Cex_C27_ContainsNullIffNullRow ==
    Encoding_contains_null(Enc)
       <=> Encoding_group_row_ids(Enc)[NULL_ID] # {}

\* C30: after any sequence of appends, push_additional with a count of 0
\* included, every run of the run stream has length at least 1.
Cex_C30_NoEmptyRun ==
    \A i \in 1..Len(run_lengths) : run_lengths[i].length >= 1

\* The last call has added a value to the dictionary at a position where an
\* entry already was.
Reindexed ==
    /\ last_call'.op \in Appends
    /\ Len(dictionary') = Len(dictionary) + 1
    /\ lookup(dictionary', last_call'.v.v) <= Len(dictionary)

\* C28: when an append adds a value at position p of the dictionary and
\* entries at positions >= p exist, then in the state after the append every
\* id >= p of the run stream and every key >= p of the inverted index is one
\* higher, ids and keys below p are as they were, every run keeps its length
\* and every bitmap its rows; a call that changes the dictionary in any other
\* way is not observable (the entries are kept or one entry is added).
Thm_C28_ReindexShift ==
    [][ /\ Reindexed =>
             LET p == lookup(dictionary', last_call'.v.v)
             IN  /\ \A i \in 1..Len(run_lengths) :
                       /\ run_lengths'[i].id = shift_id(run_lengths[i].id, p)
                       /\ run_lengths'[i].length = run_lengths[i].length
                 /\ \A k \in 0..Len(dictionary) :
                       index_row_ids'[shift_id(k, p)] = index_row_ids[k]
                 /\ \A k \in 1..Len(dictionary) :
                       dictionary'[shift_id(k, p)] = dictionary[k]
                 /\ index_row_ids'[p]
                       = { r \in RowIds(num_rows') : r >= num_rows }
                 /\ \A r \in RowIds(num_rows) :
                       Encoding_value(Enc', r) = Encoding_value(Enc, r)
        /\ \/ dictionary' = dictionary
           \/ Len(dictionary') = Len(dictionary) + 1 ]_vars

\* "a" has been appended to a column of "b", NULL: "b" moved from id 1 to
\* id 2 in the run stream and in the inverted index, NULL stayed at id 0.
Wit_C28_ShiftedIds ==
    /\ last_call.op = "push_additional"
    /\ last_call.v = Some(<<1>>)
    /\ Encoding_dictionary(Enc) = << <<1>>, <<2>> >>
    /\ EncodedIds = <<2, 0, 1>>
    /\ Encoding_group_row_ids(Enc)[2] = { 0 }
    /\ Encoding_group_row_ids(Enc)[NULL_ID] = { 1 }

\* The aggregate types that convert_aggregate accepts.
ValidAggregate(a) == a.type \in 1..7

\* C24: with exactly one valid aggregate, make_read_window_aggregate gives
\* window_every and offset back as nanosecond durations, whatever the window
\* argument is, when window_every > 0 or offset > 0; otherwise it fails with
\* EmptyWindow when the window is absent and else gives every and offset of
\* the window, or InvalidDuration when one of them does not convert. With
\* zero or several aggregates it fails with AggregateNotSingleton.
Thm_C24_WindowAggregate ==
    (request.fn = "make_read_window_aggregate" /\ response # NoResponse) =>
       LET a == request.aggregates
           w == request.window
       IN  /\ Len(a) # 1 =>
                 /\ ~response.ok
                 /\ response.error.name = "AggregateNotSingleton"
           /\ (Len(a) = 1 /\ ValidAggregate(a[1])) =>
                 IF request.window_every > 0 \/ request.offset > 0
                 THEN /\ response.ok
                      /\ response.v.every
                            = [nanoseconds |-> request.window_every]
                      /\ response.v.offset = [nanoseconds |-> request.offset]
                 ELSE IF ~w.some
                 THEN ~response.ok /\ response.error.name = "EmptyWindow"
                 ELSE IF response.ok
                 THEN /\ response.v.every = convert_duration(w.v.every).v
                      /\ response.v.offset = convert_duration(w.v.offset).v
                      /\ convert_duration(w.v.every).ok
                      /\ convert_duration(w.v.offset).ok
                 ELSE /\ response.error.name = "InvalidDuration"
                      /\ ~convert_duration(w.v.every).ok
                            \/ ~convert_duration(w.v.offset).ok

\* One Sum aggregate, window_every 0 and offset 5 with a window of months
\* given: the window is ignored and the durations are 0 ns and 5 ns.
Wit_C24_WindowIgnored ==
    /\ request.fn = "make_read_window_aggregate"
    /\ request.aggregates = << [type |-> 1] >>
    /\ request.window_every = 0
    /\ request.offset = 5
    /\ request.window.some
    /\ request.window.v.every = Some([nsecs |-> 0, months |-> 3,
                                      negative |-> FALSE])
    /\ response = Ok([agg |-> "Sum", every |-> [nanoseconds |-> 0],
                      offset |-> [nanoseconds |-> 5]])

\* C29: rpc_predicate returns Ok or an Error for every predicate tree and
\* never panics, also for Equal, Or and other nodes whose number of children
\* is not 2 and for value-less nodes.
Cex_C29_NeverPanics ==
    (request.fn = "rpc_predicate" /\ response # NoResponse)
        => ~IsPanic(response)

\* The conjuncts of the normalized root, in order.
Conjuncts(root) ==
    LET node == normalize_node(root)
    IN  IF node.ok THEN flatten_ands(node.v, <<>>) ELSE <<>>

\* The Equal nodes at the leaves of a tree of two-child Or nodes, from left
\* to right; <<>> when the node is not such a tree.
RECURSIVE Equalities(_)
Equalities(node) ==
    IF node.value = Some(Comparison("Equal")) /\ Len(node.children) = 2
    THEN << node >>
    ELSE IF node.value = Some(Logical("Or")) /\ Len(node.children) = 2
    THEN LET l == Equalities(node.children[1])
             r == Equalities(node.children[2])
         IN  IF l = <<>> \/ r = <<>> THEN <<>> ELSE l \o r
    ELSE <<>>

\* The node is an OR-tree of `tag = 'string'` equalities, all on the tag
\* reference tag_name.
IsSelection(node, tag_name) ==
    LET eqs == Equalities(node)
    IN  /\ eqs # <<>>
        /\ \A i \in 1..Len(eqs) :
              /\ eqs[i].children[1].value = Some(TagRefValue(tag_name))
              /\ eqs[i].children[1].children = <<>>
              /\ eqs[i].children[2].value.some
              /\ eqs[i].children[2].value.v.kind = "StringValue"

\* The strings of a selection.
SelectedStrings(node) ==
    LET eqs == Equalities(node)
    IN  { eqs[i].children[2].value.v.arg : i \in 1..Len(eqs) }

\* The tag names referenced anywhere in the tree.
RECURSIVE TagRefs(_)
TagRefs(node) ==
    (IF node.value.some /\ node.value.v.kind = "TagRefValue"
     THEN { node.value.v.arg } ELSE {})
    \cup UNION { TagRefs(node.children[i]) : i \in 1..Len(node.children) }

\* The tree with every reference to the field-name or measurement tag replaced
\* by a reference to the tag "h".
RECURSIVE Ordinary(_)
Ordinary(node) ==
    [node EXCEPT
       !.value = IF /\ node.value.some
                    /\ node.value.v.kind = "TagRefValue"
                    /\ is_field(node.value.v.arg)
                          \/ is_measurement(node.value.v.arg)
                 THEN Some(TagRefValue(<<104>>)) ELSE @,
       !.children = [i \in 1..Len(node.children) |->
                        Ordinary(node.children[i])]]

\* A call of rpc_predicate on a predicate with a root has returned.
Converted ==
    /\ request.fn = "rpc_predicate"
    /\ response # NoResponse
    /\ request.predicate.some
    /\ request.predicate.v.root.some

\* The conjuncts that select fields, those that select measurements, and the
\* other ones.
FieldSelections(cs) == { i \in 1..Len(cs) : IsSelection(cs[i], <<255>>) }
TableSelections(cs) == { i \in 1..Len(cs) : IsSelection(cs[i], <<0>>) }
Others(cs) == (1..Len(cs)) \ (FieldSelections(cs) \cup TableSelections(cs))

\* At most one conjunct selects fields and at most one selects measurements
\* (what the builder makes of a second selection is its own business).
SingleSelections(cs) ==
    /\ Cardinality(FieldSelections(cs)) <= 1
    /\ Cardinality(TableSelections(cs)) <= 1

\* The field-name and measurement tags referenced in conjuncts that are no
\* selections.
Misplaced(cs) ==
    UNION { TagRefs(cs[i]) : i \in Others(cs) } \cap { <<0>>, <<255>> }

\* The errors the claim names for the misplaced references.
InternalInvalid(cs) ==
    { "InternalInvalidFieldReference" : t \in Misplaced(cs) \cap { <<255>> } }
       \cup
    { "InternalInvalidMeasurementReference" :
         t \in Misplaced(cs) \cap { <<0>> } }

\* The result res of rpc_predicate on root treats every conjunct separately:
\* the call succeeds exactly when every conjunct that is no selection
\* converts, a successful call has one expr for each of those and none for a
\* selection, field_columns holds the strings of the field selection and
\* table_names those of the measurement selection.
ConjunctsConverted(root, res) ==
    LET cs == Conjuncts(root)
        fields == FieldSelections(cs)
        tables == TableSelections(cs)
    IN  /\ (SingleSelections(cs) /\ normalize_node(root).ok /\ ~IsPanic(res))
              => (res.ok <=>
                     \A i \in Others(cs) : convert_node_to_expr(cs[i]).ok)
        /\ res.ok
              => /\ Len(res.v.exprs) = Cardinality(Others(cs))
                 /\ Cardinality(fields) <= 1 =>
                       res.v.field_columns
                          = IF fields = {} THEN None
                            ELSE Some(UNION { SelectedStrings(cs[i]) :
                                                 i \in fields })
                 /\ Cardinality(tables) <= 1 =>
                       res.v.table_names
                          = IF tables = {} THEN None
                            ELSE Some(UNION { SelectedStrings(cs[i]) :
                                                 i \in tables })

FieldsSelectedAndOneExpr ==
    /\ request.fn = "rpc_predicate"
    /\ response # NoResponse
    /\ request.predicate
          = Some([root |-> Some(
               logical_node("And",
                  << logical_node("Or",
                        << comparison_node("Equal", <<tag_field, string_a>>),
                           comparison_node("Equal", <<tag_field, string_b>>)
                        >>),
                     comparison_node("Gt", <<field_h, float_5>>) >>))])
    /\ response.ok
    /\ response.v.field_columns = Some({ <<1>>, <<2>> })
    /\ response.v.table_names = None
    /\ Len(response.v.exprs) = 1

====
